---- MODULE Spec2Model ----
(***************************************************************************)
(* State-machine model of SnakeGame (src/python_1/Snake_Game.py): the grid *)
(* simulation of a Tkinter snake game.  The Tk event loop delivers three   *)
(* kinds of events to the one SnakeGame object: a timer callback           *)
(* (master.after -> tick), a direction key (change_direction) and the      *)
(* restart key (on_restart).  Rendering (redraw, _draw_cell, the game-over *)
(* texts) does not touch the simulation state and is left out.             *)
(***************************************************************************)
EXTENDS Integers, Sequences, FiniteSets, TLC

\* Largest number of grid cells (cols * rows) of the grids explored.
MaxCells == 8

\* Largest number of grid cells of the grids explored when tick() is also
\* called directly (SpecDirect).
MaxDirectCells == 7

\* Largest number of tick callbacks pending at once when tick() is also
\* called directly (SpecDirect); the event loop alone never exceeds one.
MaxScheduled == 2

\* Number of columns of the one-row grid on which a game is long enough for
\* the tick interval to reach its floor (SpecRow): 25 eats need 28 cells.
RowCols == 28

\* Largest number of grid cells of the grids explored when the grid may be
\* of any size, down to no column or no row (SpecAny).
MaxAnyCells == 6

\* Largest number of grid cells of the grids of three or more columns and
\* three or more rows explored (SpecWide).
MaxWideCells == 9

VARIABLES
    cols,            \* self.cols
    rows,            \* self.rows
    snake,           \* self.snake, head first
    direction,       \* self.direction
    next_direction,  \* self.next_direction
    food,            \* self.food: a cell or None
    game_over,       \* self.game_over
    speed,           \* self.speed
    score,           \* self.score_var
    scheduled,       \* number of pending master.after(..., self.tick) callbacks
    op,              \* the last handler that ran: its name, its argument and the
                     \* number of pending callbacks its run consumed
    pre              \* the simulation state just before that handler ran

sim == <<snake, direction, next_direction, food, game_over, speed, score, scheduled>>
vars == <<cols, rows, snake, direction, next_direction, food, game_over, speed,
          score, scheduled, op, pre>>

\* Python's None (self.food when no cell is free)
None == <<>>

Up == <<0, -1>>
Down == <<0, 1>>
Left == <<-1, 0>>
Right == <<1, 0>>

\* the four directions bind_keys can pass to change_direction
Directions == {Up, Down, Left, Right}

\* the grids of at most n cells with room for three cells in a row:
\* cols = width // cell_size, rows = height // cell_size
Grids(n) == {g \in (3..n) \X (1..n) : g[1] * g[2] <= n}

\* the grids of at most n cells of any non-negative dimensions: __init__
\* takes whatever width // cell_size and height // cell_size give
AnyGrids(n) == {g \in (0..n) \X (0..n) : g[1] * g[2] <= n}

\* the cells of the canvas grid
GridCells(c, r) == (0..(c - 1)) \X (0..(r - 1))

\* a slip of reset: the body laid out to the right of the head (mid_x + i)
InitialSnakeRightward(c, r) == [i \in 1..3 |-> <<(c \div 2) + (i - 1), r \div 2>>]

\* reset: [(mid_x - i, mid_y) for i in range(3)]
InitialSnake(c, r) == [i \in 1..3 |-> <<(c \div 2) - (i - 1), r \div 2>>]

\* reset: self.speed = 120
InitialSpeed == 120

\* tick: the floor of max(30, ...)
MinSpeed == 30

\* a slip of tick: the floor of the interval missing (int(self.speed * 0.95))
SpeedUpNoFloor(s) == (s * 95) \div 100

\* a slip of tick: a 10% speed-up instead of 5%
SpeedUpTenth(s) == IF (s * 90) \div 100 > 30 THEN (s * 90) \div 100 ELSE 30

\* tick: max(30, int(self.speed * 0.95)); int() truncates, and for the
\* non-negative speeds of the game the double product truncates to
\* floor(speed * 95 / 100)
SpeedUp(s) == IF (s * 95) \div 100 > MinSpeed THEN (s * 95) \div 100 ELSE MinSpeed

\* a slip of change_direction: the request compared with the pending
\* direction, not the active one
IsReverseOfPending(d, cur) == d[1] = -next_direction[1] /\ d[2] = -next_direction[2]

\* a slip of change_direction: `or` in place of `and`
IsReverseOr(d, cur) == d[1] = -cur[1] \/ d[2] = -cur[2]

\* a slip of change_direction: the sign of the second comparison dropped
IsReverseSignSlip(d, cur) == d[1] = -cur[1] /\ d[2] = cur[2]

\* change_direction: d[0] == -self.direction[0] and d[1] == -self.direction[1]
IsReverse(d, cur) == d[1] = -cur[1] /\ d[2] = -cur[2]

\* tick: ((head_x + dx) % self.cols, (head_y + dy) % self.rows)
NewHead(h, d, c, r) == <<(h[1] + d[1]) % c, (h[2] + d[2]) % r>>

\* a slip of tick: the collision test skips the head (new_head in self.snake[1:])
CollidesSkipHead(h, s) == \E i \in 2..Len(s) : s[i] = h

\* a slip of tick: the collision test skips the tail (new_head in self.snake[:-1])
CollidesSkipTail(h, s) == \E i \in 1..(Len(s) - 1) : s[i] = h

\* a slip of tick: the collision test made after the head is inserted
CollidesAfterInsert(h, s) == \E i \in 1..Len(<<h>> \o s) : (<<h>> \o s)[i] = h

\* tick: new_head in self.snake
Collides(h, s) == \E i \in 1..Len(s) : s[i] = h

\* tick: self.food and new_head == self.food
Eats(h, f) == f # None /\ h = f

\* a slip of tick: the tail popped on an eating tick too
GrowPop(s, h) == SubSeq(<<h>> \o s, 1, Len(s))

\* tick: self.snake.insert(0, new_head), no pop
Grow(s, h) == <<h>> \o s

\* a slip of tick: the tail is not popped
MoveNoPop(s, h) == <<h>> \o s

\* tick: self.snake.insert(0, new_head) then self.snake.pop()
Move(s, h) == SubSeq(<<h>> \o s, 1, Len(s))

\* a slip of place_food: the head is not counted as occupied
EmptyCellsSkipHead(s, c, r) == {e \in GridCells(c, r) : ~ \E i \in 2..Len(s) : s[i] = e}

\* place_food: the cells (x, y) of the grid not in self.snake
EmptyCells(s, c, r) == {e \in GridCells(c, r) : ~ \E i \in 1..Len(s) : s[i] = e}

\* a slip of place_food: any cell of the grid when none is free
PlaceFoodAnyCell(s, c, r) == IF EmptyCells(s, c, r) = {} THEN GridCells(c, r) ELSE EmptyCells(s, c, r)

\* place_food: random.choice(empty_cells) if empty_cells else None, as the set
\* of values self.food can take
PlaceFood(s, c, r) == IF EmptyCells(s, c, r) = {} THEN {None} ELSE EmptyCells(s, c, r)

\* the simulation state as one record
Snapshot ==
    [snake |-> snake, direction |-> direction, next_direction |-> next_direction,
     food |-> food, game_over |-> game_over, speed |-> speed, score |-> score,
     scheduled |-> scheduled]

\* reset(): the state it leaves, with one more tick scheduled
reset ==
    /\ snake' = InitialSnake(cols, rows)
    /\ direction' = Right
    /\ next_direction' = Right
    /\ food' \in PlaceFood(InitialSnake(cols, rows), cols, rows)
    /\ game_over' = FALSE
    /\ speed' = InitialSpeed
    /\ score' = 0
    /\ scheduled' = scheduled + 1

\* __init__ on one of the grids G: the grid is fixed, then reset() runs
InitOn(G) ==
    /\ \E g \in G : cols = g[1] /\ rows = g[2]
    /\ snake = InitialSnake(cols, rows)
    /\ direction = Right
    /\ next_direction = Right
    /\ food \in PlaceFood(InitialSnake(cols, rows), cols, rows)
    /\ game_over = FALSE
    /\ speed = InitialSpeed
    /\ score = 0
    /\ scheduled = 1
    /\ op = [name |-> "init", d |-> None, fired |-> 0]
    /\ pre = Snapshot

Init == InitOn(Grids(MaxCells))

InitDirect == InitOn(Grids(MaxDirectCells))

\* __init__ on the one-row grid of RowCols columns
InitRow == InitOn({<<RowCols, 1>>})

\* __init__ on a grid of three or more columns and three or more rows
InitWide == InitOn({g \in Grids(MaxWideCells) : g[2] >= 3})

\* __init__ on a grid of any size
InitAny == InitOn(AnyGrids(MaxAnyCells))

\* tick: (head_x + dx) % self.cols or (head_y + dy) % self.rows raises
\* ZeroDivisionError on a grid with no column or no row
DivisionByZero == cols = 0 \/ rows = 0

\* a slip of tick: the game-over guard missing
TickNeverIgnored == FALSE

\* tick: if self.game_over: return
TickIgnored == game_over

\* tick(), run with `fired` pending callbacks consumed (1 when the timer
\* fires it, 0 when it is called directly)
tick(fired) ==
    LET new_head == NewHead(snake[1], next_direction, cols, rows) IN
    IF TickIgnored
    THEN /\ scheduled' = scheduled - fired
         /\ UNCHANGED <<snake, direction, next_direction, food, game_over, speed, score>>
    ELSE /\ direction' = next_direction
         /\ UNCHANGED next_direction
         /\ IF DivisionByZero
            THEN \* the exception leaves tick before anything else is assigned
                 \* or scheduled; the event loop reports it and goes on
                 /\ scheduled' = scheduled - fired
                 /\ UNCHANGED <<snake, food, game_over, speed, score>>
            ELSE
            IF Collides(new_head, snake)
            THEN \* on_game_over
                 /\ game_over' = TRUE
                 /\ scheduled' = scheduled - fired
                 /\ UNCHANGED <<snake, food, speed, score>>
            ELSE /\ UNCHANGED game_over
                 /\ scheduled' = scheduled - fired + 1
                 /\ IF Eats(new_head, food)
                    THEN /\ snake' = Grow(snake, new_head)
                         /\ score' = score + 1
                         /\ speed' = SpeedUp(speed)
                         /\ food' \in PlaceFood(Grow(snake, new_head), cols, rows)
                    ELSE /\ snake' = Move(snake, new_head)
                         /\ UNCHANGED <<food, speed, score>>

\* the event loop runs a pending master.after callback
TimerTick ==
    /\ scheduled > 0
    /\ tick(1)
    /\ op' = [name |-> "tick", d |-> None, fired |-> 1]
    /\ pre' = Snapshot
    /\ UNCHANGED <<cols, rows>>

\* a driver calls tick() itself, outside the timer chain
CallTick ==
    /\ game_over \/ scheduled < MaxScheduled
    /\ tick(0)
    /\ op' = [name |-> "tick", d |-> None, fired |-> 0]
    /\ pre' = Snapshot
    /\ UNCHANGED <<cols, rows>>

\* a direction key: change_direction(d)
change_direction(d) ==
    /\ IF IsReverse(d, direction)
       THEN UNCHANGED next_direction
       ELSE next_direction' = d
    /\ UNCHANGED <<snake, direction, food, game_over, speed, score, scheduled>>
    /\ op' = [name |-> "change_direction", d |-> d, fired |-> 0]
    /\ pre' = Snapshot
    /\ UNCHANGED <<cols, rows>>

\* a slip of on_restart: the game-over test missing
RestartAlways == TRUE

\* on_restart: if self.game_over
RestartAllowed == game_over

\* the r key: on_restart()
on_restart ==
    /\ IF RestartAllowed
       THEN reset
       ELSE UNCHANGED sim
    /\ op' = [name |-> "on_restart", d |-> None, fired |-> 0]
    /\ pre' = Snapshot
    /\ UNCHANGED <<cols, rows>>

\* the application: every event the Tk main loop can deliver
Next ==
    \/ TimerTick
    \/ \E d \in Directions : change_direction(d)
    \/ on_restart

Spec == Init /\ [][Next]_vars

\* the application with tick() also called directly by a driver
NextDirect ==
    \/ TimerTick
    \/ CallTick
    \/ \E d \in Directions : change_direction(d)
    \/ on_restart

SpecDirect == InitDirect /\ [][NextDirect]_vars

\* the application on the long one-row grid
SpecRow == InitRow /\ [][Next]_vars

\* the application on a grid of any size
SpecAny == InitAny /\ [][Next]_vars

\* the application on the grids of three or more columns and rows
SpecWide == InitWide /\ [][Next]_vars

(***************************************************************************)
(* Properties.  `pre` and `op` let a property of one handler's run be      *)
(* stated on the state that run leaves.                                    *)
(***************************************************************************)

\* the last handler that ran is tick
Ticked == op.name = "tick"

\* the cell one step from the head of the pre-move snake in the pending
\* direction, each coordinate wrapped modulo the grid dimension
Target ==
    <<(pre.snake[1][1] + pre.next_direction[1]) % cols,
      (pre.snake[1][2] + pre.next_direction[2]) % rows>>

\* a tick that ran while alive and did not end the game
TickedOn == Ticked /\ ~pre.game_over /\ ~game_over

\* a tick that ran while alive and moved the head onto the food cell
TickedAte == TickedOn /\ snake[1] = pre.food

\* C1: while the game is alive the snake list is not empty and holds no
\* cell twice.
C1_SnakeDistinct ==
    ~game_over =>
        /\ Len(snake) >= 1
        /\ \A i, j \in 1..Len(snake) : i # j => snake[i] # snake[j]

\* C1 witness: a running game whose snake has grown by two cells and has
\* just moved.
C1_Witness == TickedOn /\ Len(snake) >= 5

\* C2: the food is absent or one in-grid cell that no snake cell occupies,
\* and it is absent only when the snake occupies every cell of the grid.
C2_FoodFree ==
    /\ food # None =>
        /\ food \in (0..(cols - 1)) \X (0..(rows - 1))
        /\ \A i \in 1..Len(snake) : snake[i] # food
    /\ food = None =>
        \A x \in 0..(cols - 1), y \in 0..(rows - 1) :
            \E i \in 1..Len(snake) : snake[i] = <<x, y>>

\* C2 witness: an eating tick has just filled the grid, and the food is
\* absent.
C2_Witness == TickedAte /\ food = None

\* C3 as stated: after a tick that moves the snake the new head is the target
\* cell and lies in the grid, and every snake cell of every state lies in
\* the grid.
C3_AllCellsInGrid ==
    /\ TickedOn =>
        /\ snake[1] = Target
        /\ 0 <= snake[1][1] /\ snake[1][1] < cols
        /\ 0 <= snake[1][2] /\ snake[1][2] < rows
    /\ \A i \in 1..Len(snake) :
        /\ 0 <= snake[i][1] /\ snake[i][1] < cols
        /\ 0 <= snake[i][2] /\ snake[i][2] < rows

\* C4: a tick that runs while alive and does not end the game leaves the
\* length as it was when the new head is not the food cell and one longer
\* when it is; no tick changes the length by any other amount.
C4_LengthStep ==
    Ticked =>
        /\ Len(snake) - Len(pre.snake) \in {0, 1}
        /\ TickedOn =>
            Len(snake) = IF snake[1] = pre.food THEN Len(pre.snake) + 1
                         ELSE Len(pre.snake)
        /\ ~TickedOn => Len(snake) = Len(pre.snake)

\* C4 witness: a tick has just eaten and the snake is one cell longer.
C4_Witness == TickedAte /\ Len(snake) = Len(pre.snake) + 1

\* C5: an eating tick adds exactly 1 to the score, sets the interval to
\* max(30, floor(interval * 0.95)) (120 becomes 114) and places new food; a
\* non-fatal tick that does not eat leaves score, interval and food alone.
C5_EatEffect ==
    /\ TickedAte =>
        /\ score = pre.score + 1
        /\ speed = IF (pre.speed * 95) \div 100 < 30 THEN 30
                   ELSE (pre.speed * 95) \div 100
        /\ pre.speed = 120 => speed = 114
        /\ food # pre.food
        /\ \A i \in 1..Len(snake) : snake[i] # food
    /\ (TickedOn /\ snake[1] # pre.food) =>
        /\ score = pre.score
        /\ speed = pre.speed
        /\ food = pre.food

\* C5 witness: the first eat of a game has just taken the interval from 120
\* to 114.
C5_Witness == TickedAte /\ pre.speed = 120 /\ speed = 114 /\ score = 1

\* C6: a tick while alive whose target is a cell of the pre-move snake ends
\* the game and leaves snake, score, food and interval as they were.
C6_FatalTick ==
    (Ticked /\ ~pre.game_over /\ \E i \in 1..Len(pre.snake) : pre.snake[i] = Target) =>
        /\ game_over
        /\ snake = pre.snake
        /\ score = pre.score
        /\ food = pre.food
        /\ speed = pre.speed

\* C6 witness: a snake of four or more cells has just run into a body cell
\* that is not its head.
C6_Witness ==
    /\ Ticked /\ ~pre.game_over /\ game_over
    /\ Len(pre.snake) >= 4
    /\ \E i \in 2..Len(pre.snake) : pre.snake[i] = Target

\* C7: a request for the exact reverse of the active direction changes
\* nothing, the pending direction included; a tick while alive commits the
\* pending direction, and a tick that moves puts the head one cell further
\* in it.
C7_ReverseRejected ==
    /\ (op.name = "change_direction"
            /\ op.d[1] = -pre.direction[1] /\ op.d[2] = -pre.direction[2]) =>
        Snapshot = pre
    /\ (Ticked /\ ~pre.game_over) => direction = pre.next_direction
    /\ TickedOn =>
        snake[1] = <<(pre.snake[1][1] + direction[1]) % cols,
                     (pre.snake[1][2] + direction[2]) % rows>>

\* C7 witness: moving right with right pending, a request for left has just
\* been made in a running game.
C7_Witness ==
    /\ op.name = "change_direction" /\ op.d = Left
    /\ pre.direction = Right /\ pre.next_direction = Right
    /\ ~game_over

\* C8: a tick invoked while the game is over changes nothing and schedules
\* no tick: the pending callbacks are those there were, less the one that
\* ran it.
C8_TickWhenOver ==
    (Ticked /\ pre.game_over) =>
        /\ snake = pre.snake
        /\ direction = pre.direction
        /\ next_direction = pre.next_direction
        /\ food = pre.food
        /\ score = pre.score
        /\ speed = pre.speed
        /\ game_over
        /\ scheduled = pre.scheduled - op.fired

\* C8 witness: tick has just been called directly while the game was over.
C8_Witness == Ticked /\ pre.game_over /\ op.fired = 0

\* C9 as stated: a direction request made while the game is over changes no
\* state variable, the pending direction included.
C9_RequestWhenOver ==
    (op.name = "change_direction" /\ pre.game_over) => Snapshot = pre

\* C10: a restart request in the game-over state leaves the three-cell
\* snake (cols//2, rows//2), (cols//2 - 1, rows//2), (cols//2 - 2, rows//2),
\* both directions right, score 0, interval 120, the game alive and the
\* food on a cell no snake cell occupies.
C10_Restart ==
    (op.name = "on_restart" /\ pre.game_over) =>
        /\ snake = << <<cols \div 2, rows \div 2>>,
                      <<(cols \div 2) - 1, rows \div 2>>,
                      <<(cols \div 2) - 2, rows \div 2>> >>
        /\ direction = <<1, 0>>
        /\ next_direction = <<1, 0>>
        /\ score = 0
        /\ speed = 120
        /\ ~game_over
        /\ food \in (0..(cols - 1)) \X (0..(rows - 1))
        /\ \A i \in 1..Len(snake) : snake[i] # food

\* C10 witness: a restart has just run in a game-over state whose pending
\* direction had been changed by a request made during game over.
C10_Witness ==
    /\ op.name = "on_restart" /\ pre.game_over
    /\ pre.next_direction # pre.direction
    /\ pre.next_direction # Right

\* C11: the game is Running or GameOver and starts Running; the game goes
\* from Running to GameOver only by a tick whose target is a cell of the
\* pre-move snake, so a tick onto a free cell, across a grid edge or not,
\* keeps it Running; it goes from GameOver to Running only by a restart.
C11_TwoStates ==
    /\ game_over \in BOOLEAN
    /\ op.name = "init" => ~game_over
    /\ (~pre.game_over /\ game_over) =>
        /\ Ticked
        /\ \E i \in 1..Len(pre.snake) : pre.snake[i] = Target
    /\ (Ticked /\ ~pre.game_over /\ \A i \in 1..Len(pre.snake) : pre.snake[i] # Target) =>
        ~game_over
    /\ (pre.game_over /\ ~game_over) => op.name = "on_restart"

\* C11 witness: a tick has just moved the head from the last column across
\* the right edge onto the free cell in column 0, and the game is Running.
C11_Witness ==
    /\ TickedOn
    /\ pre.snake[1][1] = cols - 1 /\ snake[1][1] = 0
    /\ \A i \in 1..Len(pre.snake) : pre.snake[i] # snake[1]

\* C12: the tick interval is an integer from 30 to 120; no step but a
\* restart raises it and no step but an eating tick or a restart changes
\* it; an eat at interval 30 leaves it at 30.
C12_IntervalRange ==
    /\ speed \in 30..120
    /\ op.name # "on_restart" => speed <= pre.speed
    /\ speed # pre.speed => (TickedAte \/ (op.name = "on_restart" /\ pre.game_over))
    /\ (TickedAte /\ pre.speed = 30) => speed = 30

\* C12 witness: a tick has just eaten at interval 30 and the interval is
\* still 30.
C12_Witness == TickedAte /\ pre.speed = 30 /\ speed = 30

\* C13: a tick while alive whose target is the cell of the tail ends the
\* game and does not move the snake: the collision test runs on the pre-move
\* body, tail included.
C13_TailMoveFatal ==
    (Ticked /\ ~pre.game_over /\ Target = pre.snake[Len(pre.snake)]) =>
        /\ game_over
        /\ snake = pre.snake

\* C13 witness: a snake of four cells coiled in a 2 x 2 square has just
\* moved its head onto its tail, and the game is over.
C13_Witness ==
    /\ Ticked /\ ~pre.game_over /\ game_over
    /\ Len(pre.snake) = 4
    /\ Target = pre.snake[4]
    /\ pre.snake[1][2] = pre.snake[2][2] /\ pre.snake[3][2] = pre.snake[4][2]
    /\ pre.snake[1][1] = pre.snake[4][1] /\ pre.snake[2][1] = pre.snake[3][1]
    /\ pre.snake[1][2] # pre.snake[4][2] /\ pre.snake[1][1] # pre.snake[2][1]

\* C14 as stated: a grid with a non-positive dimension or with fewer than
\* three columns is rejected at construction, so every game that exists has
\* cols >= 3 and rows >= 1.
C14_InvalidRejected == cols >= 3 /\ rows >= 1

\* C15: a direction request leaves the active direction, snake, food, score,
\* interval, game-over flag and pending callbacks alone; it sets the pending
\* direction to the one requested unless that is the reverse of the active
\* one, and then leaves the pending direction alone too; a tick while alive
\* makes the pending direction the active one and moves in it.  So the last
\* request accepted before a tick decides the direction of that tick.
C15_PendingCommit ==
    /\ op.name = "change_direction" =>
        /\ direction = pre.direction
        /\ snake = pre.snake
        /\ food = pre.food
        /\ score = pre.score
        /\ speed = pre.speed
        /\ game_over = pre.game_over
        /\ scheduled = pre.scheduled
        /\ next_direction =
            IF op.d[1] = -pre.direction[1] /\ op.d[2] = -pre.direction[2]
            THEN pre.next_direction ELSE op.d
    /\ (Ticked /\ ~pre.game_over) =>
        /\ direction = pre.next_direction
        /\ next_direction = pre.next_direction
    /\ TickedOn =>
        snake[1] = <<(pre.snake[1][1] + pre.next_direction[1]) % cols,
                     (pre.snake[1][2] + pre.next_direction[2]) % rows>>

\* C15 witness: in a running game a second request has just replaced the
\* pending direction an earlier request had set since the last tick.
C15_Witness ==
    /\ op.name = "change_direction" /\ ~game_over
    /\ pre.next_direction # pre.direction
    /\ op.d # pre.next_direction
    /\ next_direction = op.d

\* C16: the direction a tick commits is never the reverse of the direction
\* active before it, and on a grid of three or more columns and rows the
\* target of a tick while alive is never the second cell of the snake.
C16_NoNeckHit ==
    (Ticked /\ ~pre.game_over) =>
        /\ ~(direction[1] = -pre.direction[1] /\ direction[2] = -pre.direction[2])
        /\ (cols >= 3 /\ rows >= 3) => Target # pre.snake[2]

\* C16 witness: on a grid of three or more columns and rows a tick that
\* committed a turn has just ended the game, on a cell that is not the neck.
C16_Witness ==
    /\ Ticked /\ ~pre.game_over /\ game_over
    /\ cols >= 3 /\ rows >= 3
    /\ direction # pre.direction
    /\ Target # pre.snake[2]

\* C17: one tick callback is pending whenever the game is Running and none
\* when it is over: a tick that moves the snake schedules one, a fatal tick
\* none, a restart in GameOver one, and a restart request while Running
\* changes nothing.
C17_OneTickChain ==
    /\ scheduled = IF game_over THEN 0 ELSE 1
    /\ TickedOn => scheduled = pre.scheduled - op.fired + 1
    /\ (Ticked /\ game_over) => scheduled = pre.scheduled - op.fired
    /\ (op.name = "on_restart" /\ pre.game_over) => scheduled = pre.scheduled + 1
    /\ (op.name = "on_restart" /\ ~pre.game_over) => Snapshot = pre

\* C17 witness: a restart request has just been made in a running game with
\* its one tick pending.
C17_Witness ==
    /\ op.name = "on_restart" /\ ~pre.game_over
    /\ pre.scheduled = 1 /\ scheduled = 1
    /\ score >= 1

\* C18: in every state, Running or GameOver, the score is the length of
\* the snake less 3; an eating tick adds one to both and no other step but
\* a restart changes either.
C18_ScoreIsGrowth ==
    /\ score = Len(snake) - 3
    /\ TickedAte => (score = pre.score + 1 /\ Len(snake) = Len(pre.snake) + 1)
    /\ (~TickedAte /\ ~(op.name = "on_restart" /\ pre.game_over)) =>
        (score = pre.score /\ Len(snake) = Len(pre.snake))

\* C18 witness: a game has just ended with a score of two or more.
C18_Witness == Ticked /\ ~pre.game_over /\ game_over /\ score >= 2

\* C19: an eating tick that leaves no free cell leaves the food absent and
\* the game alive; in a Running state with the food absent the snake
\* occupies every cell of the grid; and a tick that runs in such a state
\* eats nothing and ends the game, whatever the pending direction.
C19_FullGrid ==
    /\ (TickedAte /\ \A x \in 0..(cols - 1), y \in 0..(rows - 1) :
                        \E i \in 1..Len(snake) : snake[i] = <<x, y>>) =>
        (food = None /\ ~game_over)
    /\ (~game_over /\ food = None) =>
        \A x \in 0..(cols - 1), y \in 0..(rows - 1) :
            \E i \in 1..Len(snake) : snake[i] = <<x, y>>
    /\ (Ticked /\ ~pre.game_over /\ pre.food = None) =>
        /\ game_over
        /\ snake = pre.snake
        /\ score = pre.score
        /\ food = None

\* C19 witness: a tick has just ended a game whose food was absent, in a
\* direction other than the one the snake was moving in.
C19_Witness ==
    /\ Ticked /\ ~pre.game_over /\ pre.food = None /\ game_over
    /\ direction # pre.direction

====
